---- MODULE Spec2Model ----
(***************************************************************************)
(* Model of scripts/generate_report.py: the scoring, time-series and       *)
(* ranking engine of the covid19-response-tracking report generator.       *)
(*                                                                         *)
(* Python values are tagged records so that None, strings, integers and a  *)
(* missing dictionary key stay distinct:                                   *)
(*   NoneV        None                                                     *)
(*   StrV(s)      a str, s the sequence of its characters                  *)
(*   IntV(n)      an int                                                   *)
(*   NoKeyV       the key is not in the dictionary (a lookup raises)       *)
(* A mean is an exact fraction [num, den] in lowest terms.                 *)
(***************************************************************************)
EXTENDS Integers, Sequences, FiniteSets, TLC

VARIABLES
  \* --- translate_reading_age and the global it reads
  scores_reading_age,   \* the module-level scores['reading age']
  age_call              \* the last call of translate_reading_age: argument, global, result

ageVars == <<scores_reading_age, age_call>>

VARIABLES
  \* --- build_top_table
  top_site_list,        \* the site_list argument: the listed sites, in insertion order
  top_rankings,         \* the rankings argument: per metric, the ranked sites, best first
  top_result            \* what the call did: the leaderboard returned, or the exception raised

topVars == <<top_site_list, top_rankings, top_result>>

VARIABLES
  \* --- build_combined_rankings
  rank_avg_scores,      \* the avg_scores argument: per metric, the (site, value) items in insertion order
  rank_rankings         \* the rankings returned, once the call is made

rankVars == <<rank_avg_scores, rank_rankings>>

VARIABLES
  \* --- extract_scores and calculate_scores, as process_site calls them
  series_data,          \* site_data: date -> the snapshot loaded for that date
  series_today,         \* date.today() of the run
  series_extracted,     \* what extract_scores returned
  series_calc           \* what calculate_scores did: the summary returned or the exception raised

seriesVars == <<series_data, series_today, series_extracted, series_calc>>

VARIABLES
  \* --- the run of the __main__ block
  run_sites,            \* c19utils.CovidSiteList(): the URLs of the monitored sites, in order
  run_next,             \* the position in run_sites of the site the loop takes next
  run_status,           \* "loop", "done", or "crashed" once an exception has left the block
  scores,               \* the module-level scores of the site last processed
  run_avg_scores,       \* avg_scores: per metric, the dictionary site -> value the rankings are built from
  run_site_list,        \* site_list: the dictionary of the sites a report was produced for
  reports,              \* site -> the scores its report page was rendered from
  run_rankings,         \* rankings: build_combined_rankings(avg_scores), line 261
  run_sorted_rankings   \* sorted_rankings: build_top_table(site_list, rankings), line 262

runVars == <<run_sites, run_next, run_status, scores, run_avg_scores, run_site_list,
             reports, run_rankings, run_sorted_rankings>>

vars == <<ageVars, topVars, rankVars, seriesVars, runVars>>

\* what an action of one part leaves alone: the other parts
AgeFrame == UNCHANGED <<topVars, rankVars, seriesVars, runVars>>
TopFrame == UNCHANGED <<ageVars, rankVars, seriesVars, runVars>>
RankFrame == UNCHANGED <<ageVars, topVars, seriesVars, runVars>>
SeriesFrame == UNCHANGED <<ageVars, topVars, rankVars, runVars>>
RunFrame == UNCHANGED <<ageVars, topVars, rankVars, seriesVars>>

----------------------------------------------------------------------------
(* Python values *)

NoneV == [t |-> "none"]
NoKeyV == [t |-> "nokey"]
StrV(s) == [t |-> "str", s |-> s]
IntV(n) == [t |-> "int", n |-> n]

\* all sequences over S of length at most n
RECURSIVE SeqsUpTo(_, _)
SeqsUpTo(S, n) ==
  IF n = 0 THEN {<<>>}
  ELSE LET shorter == SeqsUpTo(S, n - 1)
       IN shorter \cup {Append(s, c) : s \in shorter, c \in S}

----------------------------------------------------------------------------
(* Reading-level labels *)

MaxLabelLen == 2

Digits == {"0", "1", "2", "3", "4", "5", "6", "7", "8", "9"}

DigitVal(c) ==
  CASE c = "0" -> 0 [] c = "1" -> 1 [] c = "2" -> 2 [] c = "3" -> 3 [] c = "4" -> 4
    [] c = "5" -> 5 [] c = "6" -> 6 [] c = "7" -> 7 [] c = "8" -> 8 [] c = "9" -> 9

\* the characters short labels are enumerated over
LabelChars == {"0", "1", "2", "3", "g"}

\* the label find_reading_age turns into None (line 127)
SentinelLabel ==
  <<"-", "1", "t", "h", " ", "a", "n", "d", " ", "0", "t", "h", " ", "g", "r", "a", "d", "e">>

\* labels of the shape the text analysis produces
Label7 == <<"7", "t", "h", " ", "a", "n", "d", " ", "8", "t", "h", " ", "g", "r", "a", "d", "e">>
Label13 ==
  <<"1", "3", "t", "h", " ", "a", "n", "d", " ", "1", "4", "t", "h", " ", "g", "r", "a", "d", "e">>
Label14 ==
  <<"1", "4", "t", "h", " ", "a", "n", "d", " ", "1", "5", "t", "h", " ", "g", "r", "a", "d", "e">>

Labels == SeqsUpTo(LabelChars, MaxLabelLen) \cup {SentinelLabel, Label7, Label13, Label14}

\* re.search(r'\d+', s).group(): the leftmost maximal run of digits of s,
\* <<>> when s holds no digit (re.search returns None)
re_search_digits(s) ==
  LET digitAt == {i \in 1..Len(s) : s[i] \in Digits}
  IN IF digitAt = {} THEN <<>>
     ELSE LET first == CHOOSE i \in digitAt : \A j \in digitAt : i <= j
              last == CHOOSE i \in first..Len(s) :
                        /\ \A j \in first..i : s[j] \in Digits
                        /\ (i = Len(s) \/ s[i + 1] \notin Digits)
          IN SubSeq(s, first, last)

\* int() of a string of digits
RECURSIVE int(_)
int(ds) ==
  IF ds = <<>> THEN 0
  ELSE 10 * int(SubSeq(ds, 1, Len(ds) - 1)) + DigitVal(ds[Len(ds)])

\* translate_reading_age(current_age), with glob the value of the module-level
\* scores['reading age'] at the time of the call.  The body reads glob, not
\* current_age (line 133); every exception ends in the bare except (line 142).
translate_reading_age(current_age, glob) ==
  IF glob.t # "str" THEN NoneV              \* NameError, KeyError or TypeError
  ELSE LET extracted_numbers == re_search_digits(glob.s)
       IN IF extracted_numbers = <<>> THEN NoneV     \* AttributeError on .group()
          ELSE LET score_to_use == int(extracted_numbers)
               IN IF score_to_use > 0 /\ score_to_use < 13 THEN IntV(score_to_use + 5)
                  ELSE IF score_to_use > 13 THEN IntV(18)
                  ELSE NoneV

\* what a call of translate_reading_age may be given, and what the global may hold
AgeArguments == {StrV(l) : l \in Labels} \cup {NoneV}
AgeGlobals == AgeArguments \cup {NoKeyV, IntV(12)}

AgeInit ==
  /\ scores_reading_age = NoKeyV
  /\ age_call = [via |-> "init", arg |-> NoneV, glob |-> NoKeyV, res |-> NoneV]

\* lines 243-244 of the site loop: the label is stored in scores['reading age'],
\* passed to translate_reading_age, and the result stored back
TranslateInLoop(label) ==
  /\ age_call' = [via |-> "loop", arg |-> label, glob |-> label,
                  res |-> translate_reading_age(label, label)]
  /\ scores_reading_age' = age_call'.res
  /\ AgeFrame

\* a call of translate_reading_age(arg) while scores['reading age'] holds glob
TranslateCall(arg, glob) ==
  /\ age_call' = [via |-> "call", arg |-> arg, glob |-> glob,
                  res |-> translate_reading_age(arg, glob)]
  /\ scores_reading_age' = glob
  /\ AgeFrame

AgeNext ==
  \/ \E label \in AgeArguments : TranslateInLoop(label)
  \/ \E arg \in AgeArguments, glob \in AgeGlobals : TranslateCall(arg, glob)

----------------------------------------------------------------------------
(* Dictionaries: the sequence of the items [key, value] in insertion order *)

HasKey(d, k) == \E i \in 1..Len(d) : d[i].key = k

\* d[k] = v: replaces the value of k, or appends the item
dict_set(d, k, v) ==
  IF HasKey(d, k) THEN [i \in 1..Len(d) |-> IF d[i].key = k THEN [key |-> k, value |-> v] ELSE d[i]]
  ELSE Append(d, [key |-> k, value |-> v])

dict_get(d, k) == d[CHOOSE i \in 1..Len(d) : d[i].key = k].value

\* list(d)
dict_keys(d) == [i \in 1..Len(d) |-> d[i].key]

\* list(d.values())
dict_values(d) == [i \in 1..Len(d) |-> d[i].value]

----------------------------------------------------------------------------
(* Sorting *)

Reverse(s) == [i \in 1..Len(s) |-> s[Len(s) + 1 - i]]

\* how a sort key compares: keys are fractions [num, den] with den > 0
KeyLess(a, b) == a.num * b.den < b.num * a.den

IntKey(n) == [num |-> n, den |-> 1]

\* the decorated element x placed into the sorted sequence s after every element
\* whose key is not greater
RECURSIVE InsertStable(_, _)
InsertStable(s, x) ==
  IF s = <<>> THEN <<x>>
  ELSE IF KeyLess(x.key, Head(s).key) THEN <<x>> \o s
  ELSE <<Head(s)>> \o InsertStable(Tail(s), x)

\* a stable ascending sort of the decorated elements [key, item]
RECURSIVE SortStable(_)
SortStable(s) ==
  IF s = <<>> THEN <<>>
  ELSE InsertStable(SortStable(SubSeq(s, 1, Len(s) - 1)), s[Len(s)])

\* sorted(items, key=Key, reverse=reverse): the keys are computed once, the sort
\* is stable, and with reverse=True list.sort reverses the list, sorts it, and
\* reverses the result, so that equal elements keep their original order
py_sorted(items, Key(_), reverse) ==
  LET decorated == [i \in 1..Len(items) |-> [key |-> Key(items[i]), item |-> items[i]]]
      ordered == IF reverse THEN Reverse(SortStable(Reverse(decorated)))
                 ELSE SortStable(decorated)
  IN [i \in 1..Len(ordered) |-> ordered[i].item]

----------------------------------------------------------------------------
(* Sites *)

NumSites == 3

SiteNames == <<"A", "B", "C", "D", "E", "F">>

Sites == {SiteNames[i] : i \in 1..NumSites}

\* the sequences of distinct sites: the key orders a dictionary of sites can have
SiteOrders == {s \in SeqsUpTo(Sites, NumSites) : \A i, j \in 1..Len(s) : i # j => s[i] # s[j]}

Contains(s, x) == \E i \in 1..Len(s) : s[i] = x

\* list.index(x): the zero-based position of the first x (x is in s)
index(s, x) == (CHOOSE i \in 1..Len(s) : s[i] = x /\ \A j \in 1..(i - 1) : s[j] # x) - 1

----------------------------------------------------------------------------
(* build_top_table, lines 157-182 *)

Considerations == {"speed", "accessibility", "reading age"}

\* the speed term without its double weight
overall_speed_unweighted(site, site_count, rankings) ==
  IF Contains(rankings["speed"], site)
    THEN [set |-> TRUE, overall |-> site_count - index(rankings["speed"], site),
          raised |-> "no"]
    ELSE [set |-> FALSE, overall |-> 0, raised |-> "no"]

\* lines 170-173: the speed term creates top_table[site]['overall'];
\* a site absent from the speed ranking leaves the key unset (ValueError caught)
overall_speed(site, site_count, rankings) ==
  IF Contains(rankings["speed"], site)
    THEN [set |-> TRUE, overall |-> 2 * (site_count - index(rankings["speed"], site)),
          raised |-> "no"]
    ELSE [set |-> FALSE, overall |-> 0, raised |-> "no"]

\* lines 174-181: top_table[site]['overall'] += site_count - index.  The target is
\* read first: with 'overall' unset this is a KeyError, which except ValueError
\* does not catch; with the site absent from the ranking the ValueError is caught
overall_add(entry, consideration, site, site_count, rankings) ==
  IF entry.raised # "no" THEN entry
  ELSE IF ~entry.set THEN [entry EXCEPT !.raised = "KeyError"]
  ELSE IF Contains(rankings[consideration], site)
    THEN [entry EXCEPT !.overall = @ + site_count - index(rankings[consideration], site)]
    ELSE entry

\* the loop body for one site, lines 161-181
top_table_entry(site, site_count, rankings) ==
  overall_add(overall_add(overall_speed(site, site_count, rankings),
                          "accessibility", site, site_count, rankings),
              "reading age", site, site_count, rankings)

table_key(item) == IntKey(item.overall)

\* build_top_table(site_list, rankings); site_list is the sequence of the keys of
\* the site_list dictionary, rankings[c] the sequence of the keys of rankings[c]
build_top_table(site_list, rankings) ==
  LET site_count == Len(site_list)
      entries == [i \in 1..Len(site_list) |->
                    top_table_entry(site_list[i], site_count, rankings)]
  IN IF \E i \in 1..Len(entries) : entries[i].raised # "no"
       THEN [kind |-> "raise", exc |-> "KeyError", table |-> <<>>]
       ELSE [kind |-> "return", exc |-> "no",
             table |-> py_sorted([i \in 1..Len(site_list) |->
                                    [site |-> site_list[i], overall |-> entries[i].overall]],
                                 table_key, TRUE)]

\* the listed sites are the first sites, in order of their names: any other list
\* of distinct sites is this one with the sites renamed
TopSiteLists == {SubSeq(SiteNames, 1, k) : k \in 0..NumSites}

TopInit ==
  /\ top_site_list \in TopSiteLists
  /\ top_rankings \in [Considerations -> SiteOrders]
  /\ top_result = [kind |-> "pending", exc |-> "no", table |-> <<>>]

\* the call build_top_table(site_list, rankings)
BuildTopTable ==
  /\ top_result.kind = "pending"
  /\ top_result' = build_top_table(top_site_list, top_rankings)
  /\ UNCHANGED <<top_site_list, top_rankings>>
  /\ TopFrame

TopNext == BuildTopTable

----------------------------------------------------------------------------
(* build_combined_rankings, lines 149-155 *)

MaxValue == 2

\* the sort key of a number: an int n is n/1, a float its fraction
number_key(v) == IF v.t = "int" THEN IntKey(v.n) ELSE [num |-> v.num, den |-> v.den]

\* key=lambda x: x[1] on the items of a dictionary of numbers
item_value(item) == number_key(item.value)

\* every metric sorted descending, the reading age too
build_combined_rankings_all_descending(avg_scores) ==
  [c \in Considerations |-> py_sorted(avg_scores[c], item_value, TRUE)]

\* build_combined_rankings(avg_scores): speed and accessibility by value with
\* reverse=True (line 152), reading age by value ascending (line 154); a dictionary
\* is the sequence of its items [key, value] in insertion order
build_combined_rankings(avg_scores) ==
  [c \in Considerations |->
     IF c = "reading age" THEN py_sorted(avg_scores[c], item_value, FALSE)
     ELSE py_sorted(avg_scores[c], item_value, TRUE)]

\* the dictionaries of k sites with values 0..MaxValue; the keys are the first
\* sites in the order of their names: any other dictionary of distinct sites is
\* one of these with the sites renamed
ValueMaps ==
  UNION {{[i \in 1..k |-> [key |-> SiteNames[i], value |-> IntV(v[i])]] :
            v \in [1..k -> 0..MaxValue]} : k \in 0..NumSites}

\* the dictionary d with every value v replaced by MaxValue - v
Mirrored(d) ==
  [i \in 1..Len(d) |-> [key |-> d[i].key, value |-> IntV(MaxValue - d[i].value.n)]]

\* the speed and the reading-age dictionary are any two of ValueMaps; the
\* accessibility dictionary, which goes through the same statement as the speed
\* dictionary (line 152), is the speed dictionary with its values mirrored
RankInit ==
  /\ \E speed \in ValueMaps, reading_age \in ValueMaps :
       rank_avg_scores = [c \in Considerations |->
                            IF c = "speed" THEN speed
                            ELSE IF c = "accessibility" THEN Mirrored(speed)
                            ELSE reading_age]
  /\ rank_rankings = [kind |-> "pending", rankings |-> [c \in Considerations |-> <<>>]]

\* the call build_combined_rankings(avg_scores)
BuildCombinedRankings ==
  /\ rank_rankings.kind = "pending"
  /\ rank_rankings' = [kind |-> "return",
                       rankings |-> build_combined_rankings(rank_avg_scores)]
  /\ UNCHANGED rank_avg_scores
  /\ RankFrame

RankNext == BuildCombinedRankings

----------------------------------------------------------------------------
(* Dates *)

ModelYear == 2020
WindowStart == 59
MaxDays == 3

IsLeap(y) == (y % 4 = 0 /\ y % 100 # 0) \/ y % 400 = 0

DaysInMonth(y, m) ==
  IF m = 2 THEN (IF IsLeap(y) THEN 29 ELSE 28)
  ELSE IF m \in {4, 6, 9, 11} THEN 30 ELSE 31

\* the days of a common year before each month
DaysBeforeMonthTable == <<0, 31, 59, 90, 120, 151, 181, 212, 243, 273, 304, 334>>

DaysBeforeMonth(y, m) == DaysBeforeMonthTable[m] + (IF m > 2 /\ IsLeap(y) THEN 1 ELSE 0)

\* A date string 'YYYY-MM-DD' is the tuple <<year, month, day>> of its zero-padded
\* fields; a datetime.date of ModelYear is its day of the year.

\* date(int(parts[0]), int(parts[1]), int(parts[2])) of the split string, lines 76-77
date_of_string(str) == DaysBeforeMonth(str[1], str[2]) + str[3]

\* the calendar of ModelYear: the date string of each day of the year
Calendar ==
  [n \in 1..(IF IsLeap(ModelYear) THEN 366 ELSE 365) |->
     LET m == CHOOSE k \in 1..12 :
                /\ DaysBeforeMonth(ModelYear, k) < n
                /\ n <= DaysBeforeMonth(ModelYear, k) + DaysInMonth(ModelYear, k)
     IN <<ModelYear, m, n - DaysBeforeMonth(ModelYear, m)>>]

\* single_date.strftime('%Y-%m-%d'), line 82
strftime(single_date) == Calendar[single_date]

\* how two date strings compare: as strings, field by field
StringLess(a, b) ==
  \/ a[1] < b[1]
  \/ a[1] = b[1] /\ a[2] < b[2]
  \/ a[1] = b[1] /\ a[2] = b[2] /\ a[3] < b[3]

\* the sorted list of a set of date strings (list.sort, lines 75 and 190)
RECURSIVE sorted_dates(_)
sorted_dates(S) ==
  IF S = {} THEN <<>>
  ELSE LET least == CHOOSE d \in S : \A e \in S \ {d} : StringLess(d, e)
       IN <<least>> \o sorted_dates(S \ {least})

\* c19utils.daterange(first_date, last_date): every day from first_date through
\* last_date, both included, in order
daterange(first_date, last_date) ==
  [i \in 1..(last_date - first_date + 1) |-> first_date + i - 1]

\* the days of the model's calendar, as date strings
WindowDays == {strftime(n) : n \in WindowStart..(WindowStart + MaxDays - 1)}

----------------------------------------------------------------------------
(* extract_scores, lines 74-93 *)

MaxScore == 1

\* a score is a number of steps of 1/MaxScore; a snapshot holds, per category, a
\* score, a null score, or no score entry at all
ScoreEntries == {NoKeyV, NoneV} \cup {IntV(n) : n \in 0..MaxScore}
Snapshots == [accessibility : ScoreEntries, performance : ScoreEntries]

\* data[str_date]['categories'][category]['score']: "KeyError" when there is no
\* snapshot of that date or the snapshot has no such score
score_lookup(data, str_date, category) ==
  IF str_date \notin DOMAIN data THEN "KeyError"
  ELSE IF data[str_date][category] = NoKeyV THEN "KeyError"
  ELSE "found"

\* a missing score recorded as a zero
score_or_zero(data, str_date, category) ==
  IF score_lookup(data, str_date, category) = "KeyError" THEN IntV(0)
  ELSE data[str_date][category]

\* the try/except of lines 83-86 and 88-91: the score, or None on a KeyError
score_or_none(data, str_date, category) ==
  IF score_lookup(data, str_date, category) = "KeyError" THEN NoneV
  ELSE data[str_date][category]

\* the loop of lines 81-91 for one of the two output dictionaries
RECURSIVE extract_metric(_, _, _)
extract_metric(data, days, category) ==
  IF days = <<>> THEN <<>>
  ELSE LET str_date == strftime(days[Len(days)])
       IN dict_set(extract_metric(data, SubSeq(days, 1, Len(days) - 1), category),
                   str_date, score_or_none(data, str_date, category))

\* extract_scores(data, dates), with today the value of date.today()
extract_scores(data, dates, today) ==
  LET sorted == sorted_dates(dates)
      first_date == date_of_string(sorted[1])
      last_date == date_of_string(today)
      days == daterange(first_date, last_date)
  IN [accessibility |-> extract_metric(data, days, "accessibility"),
      speed |-> extract_metric(data, days, "performance")]

----------------------------------------------------------------------------
(* calculate_scores, lines 95-117 *)

RECURSIVE GCD(_, _)
GCD(a, b) == IF b = 0 THEN a ELSE GCD(b, a % b)

\* a float that is the quotient num/den, den > 0
FracV(num, den) ==
  LET g == IF num = 0 THEN den ELSE GCD(num, den)
  IN [t |-> "frac", num |-> num \div g, den |-> den \div g]

RECURSIVE sum(_)
sum(values) == IF values = <<>> THEN 0 ELSE values[1].n + sum(Tail(values))

\* max(values), values not empty
max(values) ==
  values[CHOOSE i \in 1..Len(values) : \A j \in 1..Len(values) : values[j].n <= values[i].n]

\* statistics.mean(values), values not empty
mean(values) == FracV(sum(values), Len(values))

RECURSIVE SelectSeq2(_, _)
SelectSeq2(s, keep) ==
  IF s = <<>> THEN <<>>
  ELSE IF Head(s) \in keep THEN <<Head(s)>> \o SelectSeq2(Tail(s), keep)
  ELSE SelectSeq2(Tail(s), keep)

\* filter(None, values): drops None and every other falsy value, zero included
filter_truthy(values) == SelectSeq2(values, {IntV(n) : n \in 1..MaxScore})

\* list(filter(None.__ne__, values)), lines 101-102: drops the None values only
filter_not_none(values) == SelectSeq2(values, {IntV(n) : n \in 0..MaxScore})

\* the names bound at module level when calculate_scores runs (lines 1-230)
ModuleGlobals ==
  {"url_mappings", "directories", "page_tmpl_file", "index_tmpl_file",
   "latest_language_data", "lighthouse_index", "site_list", "tmpl_env",
   "page_template", "index_template", "top_scores", "avg_scores", "site",
   "stripped_url", "scores", "clean_url", "url_stub"}

\* the except clause of lines 113-116 handling exception err: it prints the error,
\* then formats the name url, which is no local of calculate_scores; unbound at
\* module level too, that is a NameError replacing err before `raise err`
calculation_failed(err) ==
  IF "url" \in ModuleGlobals
    THEN [kind |-> "raise", exc |-> err, site_printed |-> TRUE, calculations |-> <<>>]
    ELSE [kind |-> "raise", exc |-> "NameError", site_printed |-> FALSE, calculations |-> <<>>]

\* the three statistics of one metric, lines 106-108 and 110-112
statistics_of(name, values, current) ==
  ("max_" \o name :> max(values)) @@ ("average_" \o name :> mean(values))
    @@ ("current_" \o name :> current)

\* calculate_scores(latest_date, extracted, data)
calculate_scores(latest_date, extracted, data) ==
  LET extracted_speed == filter_not_none(dict_values(extracted.speed))
      extracted_accessibility == filter_not_none(dict_values(extracted.accessibility))
      accessibility_part ==
        IF Len(extracted_accessibility) > 0
          THEN IF score_lookup(data, latest_date, "accessibility") = "KeyError" THEN "KeyError"
               ELSE statistics_of("accessibility", extracted_accessibility,
                                  data[latest_date].accessibility)
          ELSE <<>>
      speed_part ==
        IF Len(extracted_speed) > 0
          THEN IF score_lookup(data, latest_date, "performance") = "KeyError" THEN "KeyError"
               ELSE statistics_of("speed", extracted_speed, data[latest_date].performance)
          ELSE <<>>
  IN IF Len(extracted_accessibility) > 0
        /\ score_lookup(data, latest_date, "accessibility") = "KeyError"
       THEN calculation_failed("KeyError")
     ELSE IF Len(extracted_speed) > 0
        /\ score_lookup(data, latest_date, "performance") = "KeyError"
       THEN calculation_failed("KeyError")
     ELSE [kind |-> "return", exc |-> "no", site_printed |-> FALSE,
           calculations |-> accessibility_part @@ speed_part]

----------------------------------------------------------------------------
(* process_site from the loaded site_data on, lines 189-196 *)

\* the audit data a site can have: at least one snapshot, none after today
SiteData(today) ==
  UNION {[D -> Snapshots] :
           D \in {E \in SUBSET WindowDays :
                    E # {} /\ \A d \in E : ~StringLess(today, d)}}

SeriesInit ==
  /\ series_today \in WindowDays
  /\ series_data \in SiteData(series_today)
  /\ series_extracted = [accessibility |-> <<>>, speed |-> <<>>]
  /\ series_calc = [kind |-> "pending", exc |-> "no", site_printed |-> FALSE,
                    calculations |-> <<>>]

\* lines 189-194: dates_covered, latest_date, extract_scores and calculate_scores
summarize(site_data, today) ==
  LET dates_covered == sorted_dates(DOMAIN site_data)
      latest_date == dates_covered[Len(dates_covered)]
      extracted_scores == extract_scores(site_data, DOMAIN site_data, today)
  IN [extracted |-> extracted_scores,
      calc |-> calculate_scores(latest_date, extracted_scores, site_data)]

\* process_site on the loaded snapshots series_data, run on the day series_today
SummarizeSite ==
  /\ series_calc.kind = "pending"
  /\ LET done == summarize(series_data, series_today)
     IN /\ series_extracted' = done.extracted
        /\ series_calc' = done.calc
  /\ UNCHANGED <<series_data, series_today>>
  /\ SeriesFrame

SeriesNext == SummarizeSite

----------------------------------------------------------------------------
(* The run: the site loop and the leaderboard, lines 223-262 *)

\* url_mappings, lines 13-24: the sites the alias table knows, each with the URL
\* its audit data may be filed under
Alias(url) == url \o "/"
url_mappings == [url \in {"B"} |-> Alias(url)]

\* translate_to_lighthouse_key(lighthouse_keys, url), lines 28-33
translate_to_lighthouse_key(lighthouse_keys, url) ==
  IF url \in lighthouse_keys THEN [kind |-> "return", key |-> url]
  ELSE IF url \notin DOMAIN url_mappings THEN [kind |-> "raise", key |-> url]
  ELSE IF url_mappings[url] \in lighthouse_keys THEN [kind |-> "return", key |-> url_mappings[url]]
  ELSE [kind |-> "return", key |-> url]

\* process_site(stripped_url, lighthouse_index, directories), lines 184-196, with
\* lighthouse_index[key] the date-indexed snapshots filed under key; the
\* over_time entry, which only the report template reads, is left out
process_site(stripped_url, lighthouse_index, today) ==
  LET found == translate_to_lighthouse_key(DOMAIN lighthouse_index, stripped_url)
  IN IF found.kind = "raise" THEN [kind |-> "raise", exc |-> "KeyError", scores |-> <<>>]
     ELSE IF found.key \notin DOMAIN lighthouse_index
       THEN [kind |-> "raise", exc |-> "KeyError", scores |-> <<>>]
     ELSE LET calc == summarize(lighthouse_index[found.key], today).calc
          IN IF calc.kind = "raise" THEN [kind |-> "raise", exc |-> calc.exc, scores |-> <<>>]
             ELSE [kind |-> "return", exc |-> "no", scores |-> calc.calculations]

\* find_reading_age(language_data), lines 119-129; language_data holds the
\* 'standard' label of each extraction method, NoKeyV where there is none
find_reading_age(language_data) ==
  LET reading_age ==
        IF language_data.dragnet # NoKeyV THEN language_data.dragnet
        ELSE IF language_data.trafilatura # NoKeyV THEN language_data.trafilatura
        ELSE NoneV
  IN IF reading_age = StrV(SentinelLabel) THEN NoneV ELSE reading_age

\* d[k] = v on a dictionary kept as a function
fn_set(d, k, v) == (k :> v) @@ d

\* d.get(k, default)
fn_get(d, k, default) == IF k \in DOMAIN d THEN d[k] ELSE default

\* bool(v) of None or an int
truthy(v) == v.t = "int" /\ v.n # 0

\* lines 242-250: the reading age of the site, from its entry in
\* latest_language_data (NoKeyV: the site has none)
with_reading_age(site_scores, language_entry) ==
  LET read ==
        IF language_entry = NoKeyV THEN fn_set(site_scores, "reading age", NoneV)
        ELSE LET labelled == fn_set(site_scores, "reading age", find_reading_age(language_entry))
             IN fn_set(labelled, "reading age",
                       translate_reading_age(labelled["reading age"], labelled["reading age"]))
  IN fn_set(read, "reading_age", read["reading age"])

\* date.today() of the run
RunToday == strftime(WindowStart + MaxDays - 1)

\* the snapshots of the run: both scores, a zero speed, null scores, no score entries
RunSnapshots ==
  {[accessibility |-> IntV(MaxScore), performance |-> IntV(MaxScore)],
   [accessibility |-> IntV(MaxScore), performance |-> IntV(0)],
   [accessibility |-> NoneV, performance |-> NoneV],
   [accessibility |-> NoKeyV, performance |-> NoKeyV]}

\* the audit data of a site of the run: snapshots on the last two days
RunSiteData ==
  {d \in SiteData(RunToday) :
     /\ \A day \in DOMAIN d : d[day] \in RunSnapshots
     /\ \A day \in DOMAIN d : date_of_string(RunToday) - date_of_string(day) <= 1}

\* the text-analysis entries of the run
RunLanguageData ==
  {NoKeyV,
   [dragnet |-> StrV(Label7), trafilatura |-> NoKeyV],
   [dragnet |-> StrV(SentinelLabel), trafilatura |-> StrV(Label14)],
   [dragnet |-> NoKeyV, trafilatura |-> StrV(Label14)],
   [dragnet |-> NoKeyV, trafilatura |-> NoKeyV]}

NoRankings == [c \in Considerations |-> <<>>]

RunInit ==
  /\ run_sites \in {SubSeq(SiteNames, 1, k) : k \in 0..NumSites}
  /\ run_next = 1
  /\ run_status = "loop"
  /\ scores = <<>>
  /\ run_avg_scores = NoRankings
  /\ run_site_list = <<>>
  /\ reports = <<>>
  /\ run_rankings = NoRankings
  /\ run_sorted_rankings = <<>>

\* One pass of the loop of lines 226-259 for the next site.  filed_under says
\* where lighthouse_index holds the site's snapshots: under its URL, under its
\* alias, or nowhere.
ProcessSite(filed_under, site_data, language_entry) ==
  /\ LET stripped_url == run_sites[run_next]
         lighthouse_index ==
           IF filed_under = "url" THEN (stripped_url :> site_data)
           ELSE IF filed_under = "alias" THEN (Alias(stripped_url) :> site_data)
           ELSE <<>>
         processed == process_site(stripped_url, lighthouse_index, RunToday)
     IN IF processed.kind = "raise" /\ processed.exc # "KeyError"
          THEN \* not caught by except KeyError, line 235: the run ends here
               /\ run_status' = "crashed"
               /\ scores' = <<>>
               /\ UNCHANGED <<run_sites, run_next, run_avg_scores, run_site_list, reports,
                              run_rankings, run_sorted_rankings>>
          ELSE LET site_scores == with_reading_age(processed.scores, language_entry)
                   reading_ages ==
                     IF truthy(site_scores["reading age"])
                       THEN dict_set(run_avg_scores["reading age"], stripped_url,
                                     site_scores["reading age"])
                       ELSE run_avg_scores["reading age"]
               IN /\ scores' = site_scores
                  /\ reports' = fn_set(reports, stripped_url, site_scores)
                  /\ run_site_list' = dict_set(run_site_list, stripped_url, stripped_url)
                  /\ run_avg_scores' =
                       [run_avg_scores EXCEPT
                          !["reading age"] = reading_ages,
                          !["accessibility"] =
                            dict_set(@, stripped_url,
                                     fn_get(site_scores, "average_accessibility", IntV(0))),
                          !["speed"] =
                            dict_set(@, stripped_url,
                                     fn_get(site_scores, "average_speed", IntV(0)))]
                  /\ run_next' = run_next + 1
                  /\ UNCHANGED <<run_sites, run_status, run_rankings, run_sorted_rankings>>
  /\ RunFrame

\* lines 261-262, after the last site
BuildLeaderboard ==
  /\ run_status = "loop"
  /\ run_next > Len(run_sites)
  /\ LET built == build_combined_rankings(run_avg_scores)
         top == build_top_table(dict_keys(run_site_list),
                                [c \in Considerations |-> dict_keys(built[c])])
     IN /\ run_rankings' = built
        /\ run_sorted_rankings' = top.table
        /\ run_status' = IF top.kind = "raise" THEN "crashed" ELSE "done"
  /\ UNCHANGED <<run_sites, run_next, scores, run_avg_scores, run_site_list, reports>>
  /\ RunFrame

\* the loop takes the next site of run_sites, whatever data there is for it
SiteLoop ==
  /\ run_status = "loop"
  /\ run_next <= Len(run_sites)
  /\ \E filed_under \in {"url", "alias", "nowhere"}, site_data \in RunSiteData,
         language_entry \in RunLanguageData :
       ProcessSite(filed_under, site_data, language_entry)

RunNext ==
  \/ SiteLoop
  \/ BuildLeaderboard

----------------------------------------------------------------------------
(* Specifications: each exercises one part of the program, the rest is idle *)

RunIdle ==
  /\ run_sites = <<>>
  /\ run_next = 1
  /\ run_status = "idle"
  /\ scores = <<>>
  /\ run_avg_scores = NoRankings
  /\ run_site_list = <<>>
  /\ reports = <<>>
  /\ run_rankings = NoRankings
  /\ run_sorted_rankings = <<>>

SeriesIdle ==
  /\ series_today = <<ModelYear, 1, 1>>
  /\ series_data = <<>>
  /\ series_extracted = [accessibility |-> <<>>, speed |-> <<>>]
  /\ series_calc = [kind |-> "idle", exc |-> "no", site_printed |-> FALSE,
                    calculations |-> <<>>]

RankIdle ==
  /\ rank_avg_scores = [c \in Considerations |-> <<>>]
  /\ rank_rankings = [kind |-> "idle", rankings |-> [c \in Considerations |-> <<>>]]

AgeIdle ==
  /\ scores_reading_age = NoKeyV
  /\ age_call = [via |-> "init", arg |-> NoneV, glob |-> NoKeyV, res |-> NoneV]

TopIdle ==
  /\ top_site_list = <<>>
  /\ top_rankings = [c \in Considerations |-> <<>>]
  /\ top_result = [kind |-> "idle", exc |-> "no", table |-> <<>>]

InitAge == AgeInit /\ TopIdle /\ RankIdle /\ SeriesIdle /\ RunIdle
InitTop == TopInit /\ AgeIdle /\ RankIdle /\ SeriesIdle /\ RunIdle
InitRank == RankInit /\ AgeIdle /\ TopIdle /\ SeriesIdle /\ RunIdle
InitSeries == SeriesInit /\ AgeIdle /\ TopIdle /\ RankIdle /\ RunIdle
InitRun == RunInit /\ AgeIdle /\ TopIdle /\ RankIdle /\ SeriesIdle

SpecAge == InitAge /\ [][AgeNext]_vars
SpecTop == InitTop /\ [][TopNext]_vars
SpecRank == InitRank /\ [][RankNext]_vars
SpecSeries == InitSeries /\ [][SeriesNext]_vars
Spec == InitRun /\ [][RunNext]_vars

----------------------------------------------------------------------------
(* Claims about build_top_table, under SpecTop *)

TopCalled == top_result.kind \in {"return", "raise"}

\* the term of one ranking in a site's overall, with n the N of the formula;
\* nothing for a site the ranking does not hold
RankTerm(site, consideration, weight, n) ==
  IF Contains(top_rankings[consideration], site)
    THEN weight * (n - index(top_rankings[consideration], site))
    ELSE 0

InAllRankings(site) == \A c \in Considerations : Contains(top_rankings[c], site)

PositionIn(s, x) == CHOOSE i \in 1..Len(s) : s[i] = x

\* C1: whatever subset of the three rankings a listed site appears in,
\* build_top_table returns normally and the site's overall is the sum of the terms
\* of exactly the rankings it appears in.
C1_AbsenceContributesZeroNoError ==
  TopCalled =>
    /\ top_result.kind = "return"
    /\ \A i \in 1..Len(top_result.table) :
         LET e == top_result.table[i]
             n == Len(top_site_list)
         IN e.overall = RankTerm(e.site, "speed", 2, n)
                        + RankTerm(e.site, "accessibility", 1, n)
                        + RankTerm(e.site, "reading age", 1, n)

\* the leaderboard holds every listed site once, by overall descending, and sites
\* of equal overall in the order of site_list
LeaderboardSorted ==
  LET t == top_result.table
  IN /\ Len(t) = Len(top_site_list)
     /\ \A k \in 1..Len(top_site_list) : \E i \in 1..Len(t) : t[i].site = top_site_list[k]
     /\ \A i, j \in 1..Len(t) :
          i < j => \/ t[i].overall > t[j].overall
                   \/ /\ t[i].overall = t[j].overall
                      /\ PositionIn(top_site_list, t[i].site) < PositionIn(top_site_list, t[j].site)

ExampleInput ==
  /\ top_site_list = <<"A", "B", "C">>
  /\ top_rankings["speed"] = <<"A", "B", "C">>
  /\ top_rankings["accessibility"] = <<"B", "C", "A">>
  /\ top_rankings["reading age"] = <<"C", "A", "B">>

ExampleOutput ==
  top_result.table = <<[site |-> "A", overall |-> 9], [site |-> "B", overall |-> 8],
                       [site |-> "C", overall |-> 7]>>

\* C2 as stated: in a returned leaderboard a site in all three rankings has
\* overall = 2*(N - speed position) + (N - accessibility position) + (N - reading-age
\* position) with N the number of entries of the ranking consulted for that term;
\* the leaderboard is sorted by overall descending, ties in input order; the
\* example gives 9, 8, 7 and the order A, B, C.
C2_OverallByRankingLength ==
  top_result.kind = "return" =>
    /\ \A i \in 1..Len(top_result.table) :
         LET e == top_result.table[i]
         IN InAllRankings(e.site) =>
              e.overall = RankTerm(e.site, "speed", 2, Len(top_rankings["speed"]))
                          + RankTerm(e.site, "accessibility", 1, Len(top_rankings["accessibility"]))
                          + RankTerm(e.site, "reading age", 1, Len(top_rankings["reading age"]))
    /\ LeaderboardSorted
    /\ (ExampleInput => ExampleOutput)

\* C2 amended: the same with N the number of listed sites, len(site_list), for
\* every term.
C2_OverallBySiteCount ==
  top_result.kind = "return" =>
    /\ \A i \in 1..Len(top_result.table) :
         LET e == top_result.table[i]
             n == Len(top_site_list)
         IN InAllRankings(e.site) =>
              e.overall = RankTerm(e.site, "speed", 2, n)
                          + RankTerm(e.site, "accessibility", 1, n)
                          + RankTerm(e.site, "reading age", 1, n)
    /\ LeaderboardSorted
    /\ (ExampleInput => ExampleOutput)

\* the example of the specification has been computed
C2_ExampleComputed == top_result.kind = "return" /\ ExampleInput /\ ExampleOutput

----------------------------------------------------------------------------
(* Claims about translate_reading_age, under SpecAge *)

\* the age the mapping is to give for a label: grade + 5 for grades 1 to 12, 18
\* above 12, absent for grade 0, for a label without a number and for no label
ClaimedAge(label) ==
  IF label.t # "str" THEN NoneV
  ELSE LET ds == re_search_digits(label.s)
       IN IF ds = <<>> THEN NoneV
          ELSE LET g == int(ds)
               IN IF g >= 1 /\ g <= 12 THEN IntV(g + 5)
                  ELSE IF g > 12 THEN IntV(18)
                  ELSE NoneV

\* C3: called on a label as the site loop calls it, translate_reading_age gives
\* grade + 5 for a first number 1..12, 18 for a first number above 12 (13 included),
\* absent for 0, for no number and for an absent label; a result that is not absent
\* is an integer between 5 and 18.
C3_ReadingAgeMapping ==
  age_call.via = "loop" =>
    /\ age_call.res = ClaimedAge(age_call.arg)
    /\ (age_call.res # NoneV => age_call.res.n \in 5..18)

\* C4: the result of translate_reading_age is a function of its argument only:
\* two calls with the same argument give the same result, whatever
\* scores['reading age'] holds at either call.
C4_ReadingAgePure ==
  [][(age_call.via # "init" /\ age_call'.via # "init" /\ age_call'.arg = age_call.arg)
       => age_call'.res = age_call.res]_vars

----------------------------------------------------------------------------
(* Claims about build_combined_rankings, under SpecRank *)

NumLess(a, b) == KeyLess(number_key(a), number_key(b))
SameValue(a, b) == ~NumLess(a, b) /\ ~NumLess(b, a)

\* ranking holds exactly the items of input, those of equal value in the
\* order of input, the others by value: descending, or ascending
RankedFrom(ranking, input, descending) ==
  /\ Len(ranking) = Len(input)
  /\ \A i \in 1..Len(input) : \E j \in 1..Len(ranking) : ranking[j] = input[i]
  /\ \A i, j \in 1..Len(ranking) :
       i < j =>
         \/ IF descending THEN NumLess(ranking[j].value, ranking[i].value)
                          ELSE NumLess(ranking[i].value, ranking[j].value)
         \/ /\ SameValue(ranking[i].value, ranking[j].value)
            /\ PositionIn(dict_keys(input), ranking[i].key)
                 < PositionIn(dict_keys(input), ranking[j].key)

\* C10: the speed and accessibility rankings list the sites of their input map
\* by value descending, the reading-age ranking by value ascending; each holds
\* exactly the sites of its input map, and sites of equal value keep their input
\* insertion order in all three rankings.
C10_RankingsOrdered ==
  rank_rankings.kind = "return" =>
    /\ RankedFrom(rank_rankings.rankings["speed"], rank_avg_scores["speed"], TRUE)
    /\ RankedFrom(rank_rankings.rankings["accessibility"], rank_avg_scores["accessibility"], TRUE)
    /\ RankedFrom(rank_rankings.rankings["reading age"], rank_avg_scores["reading age"], FALSE)

\* rankings with ties have been built: speed A 0, B 1, C 1 and reading age
\* A 1, B 0, C 0 both give the order B, C, A; accessibility A 2, B 1, C 1 gives
\* A, B, C
C10_TiesRanked ==
  /\ rank_rankings.kind = "return"
  /\ rank_avg_scores["speed"] =
       <<[key |-> "A", value |-> IntV(0)], [key |-> "B", value |-> IntV(1)],
         [key |-> "C", value |-> IntV(1)]>>
  /\ dict_keys(rank_rankings.rankings["speed"]) = <<"B", "C", "A">>
  /\ dict_keys(rank_rankings.rankings["accessibility"]) = <<"A", "B", "C">>
  /\ rank_avg_scores["reading age"] =
       <<[key |-> "A", value |-> IntV(1)], [key |-> "B", value |-> IntV(0)],
         [key |-> "C", value |-> IntV(0)]>>
  /\ dict_keys(rank_rankings.rankings["reading age"]) = <<"B", "C", "A">>

----------------------------------------------------------------------------
(* Claims about extract_scores and calculate_scores, under SpecSeries *)

SeriesDone == series_calc.kind \in {"return", "raise"}

FirstDate == CHOOSE d \in DOMAIN series_data : \A e \in DOMAIN series_data : ~StringLess(e, d)
LatestDate == CHOOSE d \in DOMAIN series_data : \A e \in DOMAIN series_data : ~StringLess(d, e)

\* the calendar days from the first snapshot through today
DaysInRange == {d \in WindowDays : ~StringLess(d, FirstDate) /\ ~StringLess(series_today, d)}

\* what a day of the series is to carry for a category
ExpectedSample(d, category) ==
  IF d \in DOMAIN series_data /\ series_data[d][category] # NoKeyV
    THEN series_data[d][category]
    ELSE NoneV

\* one entry per day of the range, none twice
OneEntryPerDay(series) ==
  /\ Len(series) = Cardinality(DaysInRange)
  /\ {series[i].key : i \in 1..Len(series)} = DaysInRange
  /\ \A i, j \in 1..Len(series) : i # j => series[i].key # series[j].key

\* C8: the series extract_scores returns has exactly one entry per calendar day
\* from the earliest snapshot date through today inclusive, none missing and none
\* twice; accessibility and speed have the same dates; a day with a snapshot
\* carries that snapshot's two scores, a day without one carries absent for both.
C8_DailySeriesComplete ==
  SeriesDone =>
    /\ OneEntryPerDay(series_extracted.accessibility)
    /\ OneEntryPerDay(series_extracted.speed)
    /\ \A i \in 1..Len(series_extracted.accessibility) :
         /\ series_extracted.speed[i].key = series_extracted.accessibility[i].key
         /\ series_extracted.accessibility[i].value
              = ExpectedSample(series_extracted.accessibility[i].key, "accessibility")
         /\ series_extracted.speed[i].value
              = ExpectedSample(series_extracted.speed[i].key, "performance")

\* a series over three days across the end of February has been extracted, with
\* a snapshot on the first day, none on the second and one today
C8_SeriesWithGap ==
  /\ SeriesDone
  /\ series_today = <<2020, 3, 1>>
  /\ DOMAIN series_data = {<<2020, 2, 28>>, <<2020, 3, 1>>}
  /\ series_data[<<2020, 2, 28>>].accessibility = IntV(1)
  /\ Len(series_extracted.accessibility) = 3
  /\ series_extracted.accessibility[2] = [key |-> <<2020, 2, 29>>, value |-> NoneV]

\* the positions of the samples of a series that are not absent
SampleAt(series) == {i \in 1..Len(series) : series[i].value # NoneV}

RECURSIVE SampleSum(_, _)
SampleSum(series, at) ==
  IF at = {} THEN 0
  ELSE LET i == CHOOSE k \in at : TRUE
       IN series[i].value.n + SampleSum(series, at \ {i})

\* the summary of one metric is as claimed
SummaryOf(name, series, category) ==
  LET calc == series_calc.calculations
      at == SampleAt(series)
      fields == {"max_" \o name, "average_" \o name, "current_" \o name}
  IN IF at = {} THEN fields \cap DOMAIN calc = {}
     ELSE /\ fields \subseteq DOMAIN calc
          /\ LET mx == calc["max_" \o name]
                 avg == calc["average_" \o name]
             IN /\ \E i \in at : series[i].value = mx
                /\ \A i \in at : series[i].value.n <= mx.n
                /\ avg.den > 0
                /\ avg.num * Cardinality(at) = SampleSum(series, at) * avg.den
                /\ mx.n * avg.den >= avg.num
                /\ \A i \in at : (\A j \in at : series[i].value.n <= series[j].value.n)
                                     => avg.num >= series[i].value.n * avg.den
          /\ calc["current_" \o name] = series_data[LatestDate][category]

\* C9: for accessibility and for speed, a returned summary has max and average
\* computed over the non-absent samples only, max >= average >= the least
\* non-absent sample; with no non-absent sample max, average and current are all
\* omitted, otherwise all three are present, current being the value of the
\* latest snapshot verbatim.
C9_SummaryOverPresentSamples ==
  series_calc.kind = "return" =>
    /\ SummaryOf("accessibility", series_extracted.accessibility, "accessibility")
    /\ SummaryOf("speed", series_extracted.speed, "performance")

\* a summary has been returned with accessibility samples 0 and 1 (max above the
\* average), a null accessibility score in the latest snapshot, and no speed sample
C9_SummaryReturned ==
  /\ series_calc.kind = "return"
  /\ "max_accessibility" \in DOMAIN series_calc.calculations
  /\ "max_speed" \notin DOMAIN series_calc.calculations
  /\ series_calc.calculations["max_accessibility"] = IntV(1)
  /\ series_calc.calculations["average_accessibility"] = FracV(1, 2)
  /\ series_calc.calculations["current_accessibility"] = NoneV

\* C7: when calculate_scores fails, the original failure reaches the caller and
\* the offending site has been named in the report of the failure; it is not
\* replaced by another error.
C7_FailurePropagatesWithSite ==
  series_calc.kind = "raise" =>
    /\ series_calc.exc = "KeyError"
    /\ series_calc.site_printed

----------------------------------------------------------------------------
(* Claims about the run, under Spec *)

\* the ranking of a metric holds exactly the sites whose report has field
RanksExactly(consideration, field) ==
  \A site \in DOMAIN reports :
    Contains(dict_keys(run_rankings[consideration]), site)
      <=> (field \in DOMAIN reports[site] /\ reports[site][field] # NoneV)

\* C5: in the rankings built at the end of a run each metric's ranking holds
\* exactly the sites with a computed value for that metric; a site without audit
\* data, or without a sample for speed (resp. accessibility), is not in the speed
\* (resp. accessibility) ranking, with a placeholder or otherwise.
C5_RankingsHoldComputedValuesOnly ==
  run_status = "done" =>
    /\ RanksExactly("speed", "average_speed")
    /\ RanksExactly("accessibility", "average_accessibility")
    /\ RanksExactly("reading age", "reading age")

\* C6: no exception leaves the site loop whatever data the sites have, every
\* site is processed in turn, and the run ends with the rankings and the
\* leaderboard built.
C6_RunCompletes ==
  /\ run_status # "crashed"
  /\ run_status = "done" =>
       /\ DOMAIN reports = {run_sites[i] : i \in 1..Len(run_sites)}
       /\ Len(run_sorted_rankings) = Len(run_sites)

====
